---- MODULE Spec2Model ----
(***************************************************************************)
(* The Logic App Workflow resource of the azurerm provider                 *)
(* (azurerm/resource_arm_logic_app_workflow.go): its four handlers Create, *)
(* Read, Update and Delete run by concurrent callers against one remote    *)
(* (the ARM API), the named lock Update and Delete take, and the two       *)
(* parameter mapping helpers.                                              *)
(*                                                                         *)
(* Go values are modelled as follows.  A pointer or an interface value     *)
(* that may be nil is None or Some(v).  A string the code takes apart      *)
(* (a location) is a sequence of characters.  A map[string]T is a function *)
(* whose domain is its key set.  An interface{} value of the definition    *)
(* document or of a parameter is a record [t, v]: its dynamic type and its *)
(* content.                                                                *)
(***************************************************************************)
EXTENDS Integers, Sequences, FiniteSets, TLC

VARIABLES
    remote,   \* the remote: workflow name -> None | Some(workflow object)
    locks,    \* the named lock registry: workflow name -> holder, or NoProc
    d,        \* per caller: its schema.ResourceData (id and attributes)
    cfg,      \* per caller: the configuration the host handed to the call
    pc,       \* per caller: position in the handler it is running
    op,       \* per caller: the handler it runs or ran last
    res,      \* per caller: what the last finished handler returned
    ans,      \* per caller: how the remote answered its last call (err/resp)
    rd,       \* per caller: Update's local `read` (the fetched definition)
    trail,    \* per caller: progress of an undisturbed Create-then-Read
    calls,    \* number of handler calls the host has started
    rt        \* the parameter round trip: input, typed map, flattened map

vars == <<remote, locks, d, cfg, pc, op, res, ans, rd, trail, calls, rt>>

(***************************************************************************)
(* Bounds                                                                  *)
(***************************************************************************)
MaxCalls == 3

Procs == {"a", "b"}
NoProc == "none"
Names == {"wf1", "wf2"}
\* The names configurations use; the other names occur only in imported
\* identifiers whose workflow is gone.
ConfiguredNames == {"wf1"}
ResourceGroupName == "rg1"

None == [some |-> FALSE]
Some(x) == [some |-> TRUE, v |-> x]

EmptyMap == [k \in {} |-> ""]

(***************************************************************************)
(* Schema defaults of workflow_schema and workflow_version.                *)
(***************************************************************************)
Unset == "<unset>"
DefaultWorkflowSchema == "https://schema.management.azure.com/providers/Microsoft.Logic/schemas/2016-06-01/workflowdefinition.json#"
DefaultWorkflowVersion == "1.0.0.0"
ParameterTypeString == "String"

SchemaDefault(v, dflt) == IF v = Unset THEN dflt ELSE v

(***************************************************************************)
(* Locations and their normalisation: lower case, spaces removed.          *)
(***************************************************************************)
ToLower(c) ==
    CASE c = "W" -> "w"
      [] c = "E" -> "e"
      [] c = "U" -> "u"
      [] c = "S" -> "s"
      [] OTHER -> c

NotSpace(c) == c # " "

azureRMNormalizeLocation(location) ==
    SelectSeq([i \in 1..Len(location) |-> ToLower(location[i])], NotSpace)

LocWestUS == <<"W", " ", "U", "S">>
LocEastUs == <<"e", "u", "s">>
LocRemote == <<"w", "e", "u">>

(***************************************************************************)
(* Resource identifiers: the remote-assigned path, and its parsing.        *)
(***************************************************************************)
EmptyId == <<>>
BadId == <<"workflows">>
AzureID(rg, name) == <<"resourceGroups", rg, "workflows", name>>

ParsesOk(id) ==
    /\ Len(id) = 4
    /\ id[1] = "resourceGroups"
    /\ id[3] = "workflows"

parseAzureResourceID(id) == [ResourceGroup |-> id[2], workflows |-> id[4]]

ResponseWasNotFound(a) == a = "notfound"

(***************************************************************************)
(* Tags: expandTags turns the configured map into a map of string          *)
(* pointers, flattenAndSetTags dereferences them.                          *)
(***************************************************************************)
expandTags(tags) == [k \in DOMAIN tags |-> Some(tags[k])]

flattenTags(tags) == [k \in DOMAIN tags |-> tags[k].v]

(***************************************************************************)
(* expandLogicAppWorkflowParameters: every configured entry becomes a      *)
(* pointer to a WorkflowParameter of type String.                          *)
(***************************************************************************)
StringValue(s) == [t |-> "string", v |-> s]

expandLogicAppWorkflowParameters(dd) ==
    [k \in DOMAIN dd.parameters |->
        Some([Type |-> ParameterTypeString, Value |-> StringValue(dd.parameters[k])])]

(***************************************************************************)
(* flattenLogicAppWorkflowParameters: nil entries are dropped, every other *)
(* value is asserted to be a string; the assertion panics otherwise.       *)
(***************************************************************************)
NonNilKeys(input) == {k \in DOMAIN input : input[k].some}

flattenPanics(input) ==
    \E k \in NonNilKeys(input) : input[k].v.Value.t # "string"

flattenDropsEmpty(input) ==
    [k \in {j \in NonNilKeys(input) : input[j].v.Value.v # ""} |-> input[k].v.Value.v]

flattenLogicAppWorkflowParameters(input) ==
    [k \in NonNilKeys(input) |-> input[k].v.Value.v]

(***************************************************************************)
(* The definition document and the workflow object of the SDK.             *)
(***************************************************************************)
ObjectValue(s) == [t |-> "object", v |-> s]
NumberValue(s) == [t |-> "number", v |-> s]

DefinitionMap(m) == [kind |-> "map", m |-> m]
DefinitionString == [kind |-> "string", m |-> EmptyMap]

NewDefinition(workflowSchema, workflowVersion) ==
    DefinitionMap(
        "$schema" :> StringValue(workflowSchema)
     @@ "contentVersion" :> StringValue(workflowVersion)
     @@ "actions" :> ObjectValue("{}")
     @@ "triggers" :> ObjectValue("{}"))

Workflow(location, definition, parameters, tags) ==
    [Location |-> Some(location),
     WorkflowProperties |-> Some([Definition |-> definition, Parameters |-> parameters]),
     Tags |-> tags]

(***************************************************************************)
(* The logic.Workflow that Create sends: a fresh definition with empty     *)
(* action and trigger maps.                                                *)
(***************************************************************************)
CreatePropertiesNoTags(dd) ==
    Workflow(azureRMNormalizeLocation(dd.location),
             Some(NewDefinition(dd.workflow_schema, dd.workflow_version)),
             expandLogicAppWorkflowParameters(dd),
             expandTags(EmptyMap))

CreateProperties(dd) ==
    Workflow(azureRMNormalizeLocation(dd.location),
             Some(NewDefinition(dd.workflow_schema, dd.workflow_version)),
             expandLogicAppWorkflowParameters(dd),
             expandTags(dd.tags))

(***************************************************************************)
(* The logic.Workflow that Update sends: the fetched definition as it is,  *)
(* with the configured location, parameters and tags.                      *)
(***************************************************************************)
UpdatePropertiesFresh(dd, read) ==
    Workflow(azureRMNormalizeLocation(dd.location),
             Some(NewDefinition(dd.workflow_schema, dd.workflow_version)),
             expandLogicAppWorkflowParameters(dd),
             expandTags(dd.tags))

UpdateProperties(dd, read) ==
    Workflow(azureRMNormalizeLocation(dd.location),
             read,
             expandLogicAppWorkflowParameters(dd),
             expandTags(dd.tags))

(***************************************************************************)
(* The remote.  CreateOrUpdate replaces the whole object under the name    *)
(* and the remote adds what it assigns: name, identifier, access endpoint. *)
(***************************************************************************)
AccessEndpoint(name) == "https://logic/" \o name

Stored(name, properties) ==
    [Name |-> name,
     Location |-> properties.Location,
     WorkflowProperties |->
        IF properties.WorkflowProperties.some
        THEN Some([Definition |-> properties.WorkflowProperties.v.Definition,
                   Parameters |-> properties.WorkflowProperties.v.Parameters,
                   AccessEndpoint |-> AccessEndpoint(name)])
        ELSE None,
     Tags |-> properties.Tags]

Present(name) == remote[name].some

GetAnswers(name) ==
    {"fail"} \cup (IF Present(name) THEN {"ok"} ELSE {"notfound"})

(***************************************************************************)
(* Workflows that exist on the remote before any handler runs: made out of *)
(* band, by the portal or by the sibling action and trigger resources.     *)
(***************************************************************************)
DefFull ==
    DefinitionMap(
        "$schema" :> StringValue("schema-0")
     @@ "contentVersion" :> StringValue("0.9.0.0")
     @@ "actions" :> ObjectValue("{a1}")
     @@ "triggers" :> ObjectValue("{t1}"))

DefNoSchema ==
    DefinitionMap(
        "contentVersion" :> StringValue("0.9.0.0")
     @@ "actions" :> ObjectValue("{a1}")
     @@ "triggers" :> ObjectValue("{}"))

DefNumberVersion ==
    DefinitionMap(
        "$schema" :> StringValue("schema-0")
     @@ "contentVersion" :> NumberValue("1")
     @@ "actions" :> ObjectValue("{}")
     @@ "triggers" :> ObjectValue("{t1}"))

ParamsRemote ==
    "p1" :> Some([Type |-> ParameterTypeString, Value |-> StringValue("r1")])
 @@ "p9" :> None

ParamsInt ==
    "n1" :> Some([Type |-> "Int", Value |-> NumberValue("7")])

TagsRemote == "owner" :> Some("ops")

Foreign(name, location, props) ==
    [Name |-> name, Location |-> location, WorkflowProperties |-> props, Tags |-> TagsRemote]

ForeignProps(definition, parameters, name) ==
    Some([Definition |-> definition, Parameters |-> parameters,
          AccessEndpoint |-> AccessEndpoint(name)])

RemoteInit(name) ==
    IF name \notin ConfiguredNames THEN {None} ELSE
    { None,
      Some(Foreign(name, Some(LocRemote), ForeignProps(Some(DefFull), ParamsRemote, name))),
      Some(Foreign(name, Some(LocRemote), ForeignProps(Some(DefNoSchema), ParamsRemote, name))),
      Some(Foreign(name, Some(LocRemote), ForeignProps(Some(DefNumberVersion), ParamsRemote, name))),
      Some(Foreign(name, Some(LocRemote), ForeignProps(Some(DefinitionString), ParamsRemote, name))),
      Some(Foreign(name, Some(LocRemote), ForeignProps(None, ParamsInt, name))),
      Some(Foreign(name, None, None)) }

(***************************************************************************)
(* Configurations the host hands to Create and Update.                     *)
(***************************************************************************)
Config(name, location, parameters, tags, workflowSchema, workflowVersion) ==
    [name |-> name, resource_group_name |-> ResourceGroupName, location |-> location,
     parameters |-> parameters, tags |-> tags,
     workflow_schema |-> workflowSchema, workflow_version |-> workflowVersion]

Configs ==
    UNION { { Config(n, LocWestUS, "p1" :> "v1", "env" :> "x", Unset, Unset),
              Config(n, LocEastUs, EmptyMap, EmptyMap, "schema-1", "2.0.0.0") } : n \in ConfiguredNames }

ZeroConfig == Config("", <<>>, EmptyMap, EmptyMap, "", "")

ZeroData(id) ==
    [id |-> id, name |-> "", resource_group_name |-> "", location |-> <<>>,
     parameters |-> EmptyMap, tags |-> EmptyMap, workflow_schema |-> "",
     workflow_version |-> "", access_endpoint |-> ""]

InitialIds == {EmptyId, BadId} \cup {AzureID(ResourceGroupName, n) : n \in Names}

(***************************************************************************)
(* Read's population of the local state from a fetched workflow.  The two  *)
(* type assertions on the definition map have no comma-ok form: a missing  *)
(* or non-string "$schema" or "contentVersion" panics, and so does a       *)
(* non-string parameter value in flatten.  A panic leaves what was set     *)
(* before it.  The result is the new ResourceData and whether it panicked. *)
(***************************************************************************)
HasString(m, key) == key \in DOMAIN m /\ m[key].t = "string"

DefinitionPanics(definition) ==
    /\ definition.some
    /\ definition.v.kind = "map"
    /\ ~ (HasString(definition.v.m, "$schema") /\ HasString(definition.v.m, "contentVersion"))

SetNameAndLocation(dd, resp, resourceGroup) ==
    [dd EXCEPT !.name = resp.Name,
               !.resource_group_name = resourceGroup,
               !.location = IF resp.Location.some
                            THEN azureRMNormalizeLocation(resp.Location.v)
                            ELSE @]

SetProperties(dd, props) ==
    [dd EXCEPT !.parameters = flattenLogicAppWorkflowParameters(props.Parameters),
               !.access_endpoint = props.AccessEndpoint]

SetDefinition(dd, definition) ==
    IF definition.some /\ definition.v.kind = "map"
    THEN [dd EXCEPT !.workflow_schema = definition.v.m["$schema"].v,
                    !.workflow_version = definition.v.m["contentVersion"].v]
    ELSE dd

flattenAndSetTags(dd, tags) == [dd EXCEPT !.tags = flattenTags(tags)]

ReadApply(dd, resp, resourceGroup) ==
    LET d1 == SetNameAndLocation(dd, resp, resourceGroup)
        props == resp.WorkflowProperties
    IN  IF ~ props.some
        THEN [d |-> flattenAndSetTags(d1, resp.Tags), panic |-> FALSE]
        ELSE IF flattenPanics(props.v.Parameters)
        THEN [d |-> d1, panic |-> TRUE]
        ELSE IF DefinitionPanics(props.v.Definition)
        THEN [d |-> SetProperties(d1, props.v), panic |-> TRUE]
        ELSE [d |-> flattenAndSetTags(
                        SetDefinition(SetProperties(d1, props.v), props.v.Definition),
                        resp.Tags),
              panic |-> FALSE]

(***************************************************************************)
(* Which remote answers each handler absorbs or fails on.                  *)
(***************************************************************************)
CreateGetFailsOnErrorOnly(a) == a \in {"fail", "notfound"}

CreateGetFails(a) == a # "ok"

ReadAbsorbsAny(a) == a # "ok"

ReadAbsorbs(a) == ResponseWasNotFound(a)

UpdateAbsorbsAny(a) == a # "ok"

UpdateAbsorbs(a) == ResponseWasNotFound(a)

DeleteAbsorbsNothing(a) == FALSE

DeleteAbsorbs(a) == ResponseWasNotFound(a)

(***************************************************************************)
(* The named lock: azureRMLockByName blocks until the key is free; the     *)
(* deferred azureRMUnlockByName frees the key the caller holds.            *)
(***************************************************************************)
azureRMLockByName(p, name) ==
    /\ locks[name] = NoProc
    /\ locks' = [locks EXCEPT ![name] = p]

azureRMUnlockByName(p) == [n \in Names |-> IF locks[n] = p THEN NoProc ELSE locks[n]]

UpdateNoUnlock(p) == locks

UpdateDeferredUnlock(p) == azureRMUnlockByName(p)

DeleteDeferredUnlock(p) == azureRMUnlockByName(p)

(***************************************************************************)
(* Initial state: the remote holds any of the out-of-band workflows or     *)
(* none; a caller has no identity, or one it imported.                     *)
(***************************************************************************)
RtIdle == [stage |-> "idle", input |-> EmptyMap, typed |-> EmptyMap, output |-> EmptyMap]

Init ==
    /\ remote \in [Names -> UNION {RemoteInit(n) : n \in Names}]
    /\ \A n \in Names : remote[n] \in RemoteInit(n)
    /\ locks = [n \in Names |-> NoProc]
    /\ \E ids \in [Procs -> InitialIds] : d = [p \in Procs |-> ZeroData(ids[p])]
    /\ cfg = [p \in Procs |-> ZeroConfig]
    /\ pc = [p \in Procs |-> "idle"]
    /\ op = [p \in Procs |-> "none"]
    /\ res = [p \in Procs |-> "none"]
    /\ ans = [p \in Procs |-> "none"]
    /\ rd = [p \in Procs |-> None]
    /\ trail = [p \in Procs |-> "none"]
    /\ calls = 0
    /\ rt = RtIdle

(***************************************************************************)
(* Bookkeeping shared by the handlers.                                     *)
(***************************************************************************)
Name(p) == parseAzureResourceID(d[p].id).workflows

Return(p, r) ==
    /\ pc' = [pc EXCEPT ![p] = "idle"]
    /\ res' = [res EXCEPT ![p] = r]
    /\ rd' = [rd EXCEPT ![p] = None]

Goto(p, label) ==
    /\ pc' = [pc EXCEPT ![p] = label]
    /\ UNCHANGED res

Begin(p, name) ==
    /\ pc[p] = "idle"
    /\ calls < MaxCalls
    /\ calls' = calls + 1
    /\ op' = [op EXCEPT ![p] = name]
    /\ ans' = [ans EXCEPT ![p] = "none"]

Answer(p, a) == ans' = [ans EXCEPT ![p] = a]

\* A Create-then-Read of caller p stays undisturbed while no other caller
\* changes the remote.
Trail(p, t) ==
    trail' = [q \in Procs |->
                IF q = p THEN t
                ELSE IF remote' # remote THEN "none" ELSE trail[q]]

(***************************************************************************)
(* Create                                                                  *)
(***************************************************************************)
\* The host calls Create for a resource without identity; d carries the
\* configuration with the schema defaults applied.
CreateBegin(p, c) ==
    /\ Begin(p, "Create")
    /\ d[p].id = EmptyId
    /\ d' = [d EXCEPT ![p] =
                [@ EXCEPT !.name = c.name,
                          !.resource_group_name = c.resource_group_name,
                          !.location = c.location,
                          !.parameters = c.parameters,
                          !.tags = c.tags,
                          !.workflow_schema = SchemaDefault(c.workflow_schema, DefaultWorkflowSchema),
                          !.workflow_version = SchemaDefault(c.workflow_version, DefaultWorkflowVersion)]]
    /\ cfg' = [cfg EXCEPT ![p] = c]
    /\ pc' = [pc EXCEPT ![p] = "c_cou"]
    /\ res' = [res EXCEPT ![p] = "none"]
    /\ UNCHANGED <<remote, locks, rd, rt>>
    /\ Trail(p, IF Present(c.name) THEN "none" ELSE "create")

\* client.CreateOrUpdate and its error check.
CreateCOU(p) ==
    /\ pc[p] = "c_cou"
    /\ \E a \in {"ok", "fail"} :
        /\ Answer(p, a)
        /\ IF a = "ok"
           THEN /\ remote' = [remote EXCEPT ![d[p].name] =
                                Some(Stored(d[p].name, CreateProperties(d[p])))]
                /\ Goto(p, "c_get")
                /\ UNCHANGED rd
                /\ Trail(p, trail[p])
           ELSE /\ UNCHANGED remote
                /\ Return(p, "error")
                /\ Trail(p, "none")
    /\ UNCHANGED <<locks, d, cfg, op, calls, rt>>

\* client.Get, the checks of its error and of read.ID, and d.SetId.
CreateGet(p) ==
    /\ pc[p] = "c_get"
    /\ UNCHANGED <<remote, locks, cfg, op, calls, rt>>
    /\ \E a \in GetAnswers(d[p].name) \cup (IF Present(d[p].name) THEN {"noid"} ELSE {}) :
        /\ Answer(p, a)
        /\ IF CreateGetFails(a)
           THEN /\ Return(p, "error")
                /\ UNCHANGED d
                /\ Trail(p, "none")
           ELSE /\ d' = [d EXCEPT ![p].id = AzureID(d[p].resource_group_name, d[p].name)]
                /\ Goto(p, "c_read")
                /\ UNCHANGED rd
                /\ Trail(p, trail[p])

(***************************************************************************)
(* Read, called by the host and at the end of Create and Update.           *)
(***************************************************************************)
ReadBegin(p) ==
    /\ Begin(p, "Read")
    /\ d[p].id # EmptyId
    /\ pc' = [pc EXCEPT ![p] = "r_get"]
    /\ res' = [res EXCEPT ![p] = "none"]
    /\ UNCHANGED <<remote, locks, d, cfg, rd, rt>>
    /\ Trail(p, IF trail[p] = "created" THEN "read" ELSE "none")

TrailAfterRead(p) ==
    CASE pc[p] = "c_read" /\ trail[p] = "create" -> "created"
      [] pc[p] = "r_get" /\ trail[p] = "read" -> "createdRead"
      [] OTHER -> "none"

\* The lock Update holds is released when the delegated Read returns.
ReadExit(p) ==
    locks' = IF pc[p] = "u_read" THEN UpdateDeferredUnlock(p) ELSE locks

ReadGet(p) ==
    /\ pc[p] \in {"c_read", "u_read", "r_get"}
    /\ UNCHANGED <<remote, cfg, op, calls, rt>>
    /\ ReadExit(p)
    /\ IF ~ ParsesOk(d[p].id)
       THEN /\ Return(p, "error")
            /\ UNCHANGED <<d, ans>>
            /\ Trail(p, "none")
       ELSE \E a \in GetAnswers(Name(p)) :
            /\ Answer(p, a)
            /\ IF a # "ok"
               THEN IF ReadAbsorbs(a)
                    THEN /\ d' = [d EXCEPT ![p].id = EmptyId]
                         /\ Return(p, "ok")
                         /\ Trail(p, "none")
                    ELSE /\ UNCHANGED d
                         /\ Return(p, "error")
                         /\ Trail(p, "none")
               ELSE LET r == ReadApply(d[p], remote[Name(p)].v,
                                       parseAzureResourceID(d[p].id).ResourceGroup)
                    IN  /\ d' = [d EXCEPT ![p] = r.d]
                        /\ Return(p, IF r.panic THEN "panic" ELSE "ok")
                        /\ Trail(p, IF r.panic THEN "none" ELSE TrailAfterRead(p))

(***************************************************************************)
(* Update                                                                  *)
(***************************************************************************)
\* The host calls Update for a resource with an identity; d carries the
\* configured location, parameters and tags.  The identifier is parsed
\* before the lock is taken.
UpdateBegin(p, c) ==
    /\ Begin(p, "Update")
    /\ d[p].id # EmptyId
    /\ d' = [d EXCEPT ![p] =
                [@ EXCEPT !.location = c.location,
                          !.parameters = c.parameters,
                          !.tags = c.tags]]
    /\ cfg' = [cfg EXCEPT ![p] = c]
    /\ IF ParsesOk(d[p].id)
       THEN /\ pc' = [pc EXCEPT ![p] = "u_lock"]
            /\ res' = [res EXCEPT ![p] = "none"]
            /\ UNCHANGED rd
       ELSE Return(p, "error")
    /\ UNCHANGED <<remote, locks, rt>>
    /\ Trail(p, "none")

UpdateLock(p) ==
    /\ pc[p] = "u_lock"
    /\ azureRMLockByName(p, Name(p))
    /\ Goto(p, "u_get")
    /\ UNCHANGED <<remote, d, cfg, op, ans, rd, trail, calls, rt>>

\* client.Get, the not-found and error returns, the nil check of
\* WorkflowProperties.
UpdateGet(p) ==
    /\ pc[p] = "u_get"
    /\ UNCHANGED <<remote, cfg, op, calls, trail, rt>>
    /\ \E a \in GetAnswers(Name(p)) :
        /\ Answer(p, a)
        /\ IF a # "ok"
           THEN /\ locks' = UpdateDeferredUnlock(p)
                /\ IF UpdateAbsorbs(a)
                   THEN /\ d' = [d EXCEPT ![p].id = EmptyId]
                        /\ Return(p, "ok")
                   ELSE /\ UNCHANGED d
                        /\ Return(p, "error")
           ELSE IF ~ remote[Name(p)].v.WorkflowProperties.some
           THEN /\ locks' = UpdateDeferredUnlock(p)
                /\ UNCHANGED d
                /\ Return(p, "error")
           ELSE /\ rd' = [rd EXCEPT ![p] = remote[Name(p)].v.WorkflowProperties.v.Definition]
                /\ Goto(p, "u_cou")
                /\ UNCHANGED <<locks, d>>

\* client.CreateOrUpdate with the fetched definition, and its error check.
UpdateCOU(p) ==
    /\ pc[p] = "u_cou"
    /\ UNCHANGED <<d, cfg, op, calls, rt>>
    /\ \E a \in {"ok", "fail"} :
        /\ Answer(p, a)
        /\ IF a = "ok"
           THEN /\ remote' = [remote EXCEPT ![Name(p)] =
                                Some(Stored(Name(p), UpdateProperties(d[p], rd[p])))]
                /\ Goto(p, "u_read")
                /\ UNCHANGED <<locks, rd>>
           ELSE /\ UNCHANGED remote
                /\ locks' = UpdateDeferredUnlock(p)
                /\ Return(p, "error")
    /\ Trail(p, "none")

(***************************************************************************)
(* Delete                                                                  *)
(***************************************************************************)
DeleteBegin(p) ==
    /\ Begin(p, "Delete")
    /\ d[p].id # EmptyId
    /\ IF ParsesOk(d[p].id)
       THEN /\ pc' = [pc EXCEPT ![p] = "d_lock"]
            /\ res' = [res EXCEPT ![p] = "none"]
            /\ UNCHANGED rd
       ELSE Return(p, "error")
    /\ UNCHANGED <<remote, locks, d, cfg, rt>>
    /\ Trail(p, "none")

DeleteLockNoWait(p) ==
    /\ pc[p] = "d_lock"
    /\ Goto(p, "d_del")
    /\ UNCHANGED <<remote, locks, d, cfg, op, ans, rd, trail, calls, rt>>

DeleteLock(p) ==
    /\ pc[p] = "d_lock"
    /\ azureRMLockByName(p, Name(p))
    /\ Goto(p, "d_del")
    /\ UNCHANGED <<remote, d, cfg, op, ans, rd, trail, calls, rt>>

\* client.Delete: a not-found answer is a success.
DeleteCall(p) ==
    /\ pc[p] = "d_del"
    /\ UNCHANGED <<d, cfg, op, calls, rt>>
    /\ locks' = DeleteDeferredUnlock(p)
    /\ \E a \in GetAnswers(Name(p)) :
        /\ Answer(p, a)
        /\ remote' = IF a = "ok" THEN [remote EXCEPT ![Name(p)] = None] ELSE remote
        /\ Return(p, IF a = "ok" \/ DeleteAbsorbs(a) THEN "ok" ELSE "error")
    /\ Trail(p, "none")

(***************************************************************************)
(* The handlers together.                                                  *)
(***************************************************************************)
Step(p) ==
    \/ CreateCOU(p)
    \/ CreateGet(p)
    \/ ReadGet(p)
    \/ UpdateGet(p)
    \/ UpdateCOU(p)
    \/ DeleteCall(p)

Acquire(p) ==
    \/ UpdateLock(p)
    \/ DeleteLock(p)

Host(p) ==
    \/ \E c \in Configs : CreateBegin(p, c)
    \/ ReadBegin(p)
    \/ \E c \in Configs : UpdateBegin(p, c)
    \/ DeleteBegin(p)

Next == \E p \in Procs : Host(p) \/ Acquire(p) \/ Step(p)

Spec == Init /\ [][Next]_vars

\* The remote calls return, and the mutex hands the lock to a waiter.
Fairness == \A p \in Procs : WF_vars(Step(p)) /\ SF_vars(Acquire(p))

SpecLive == Spec /\ Fairness

TypeOK ==
    /\ \A p \in Procs :
        /\ pc[p] \in {"idle", "c_cou", "c_get", "c_read", "r_get",
                      "u_lock", "u_get", "u_cou", "u_read", "d_lock", "d_del"}
        /\ res[p] \in {"none", "ok", "error", "panic"}
        /\ ans[p] \in {"none", "ok", "fail", "notfound", "noid"}
    /\ calls \in 0..MaxCalls

(***************************************************************************)
(* The parameter round trip on its own: expand applied to a configured     *)
(* map, then flatten applied to the result.                                *)
(***************************************************************************)
MaxParams == 3

ParamKeys == {"p" \o ToString(i) : i \in 1..MaxParams}
ParamValues == {"", "v1", "v2"}
ParamMaps == UNION {[K -> ParamValues] : K \in SUBSET ParamKeys}

RtInit ==
    /\ remote = [n \in Names |-> None]
    /\ locks = [n \in Names |-> NoProc]
    /\ d = [p \in Procs |-> ZeroData(EmptyId)]
    /\ cfg = [p \in Procs |-> ZeroConfig]
    /\ pc = [p \in Procs |-> "idle"]
    /\ op = [p \in Procs |-> "none"]
    /\ res = [p \in Procs |-> "none"]
    /\ ans = [p \in Procs |-> "none"]
    /\ rd = [p \in Procs |-> None]
    /\ trail = [p \in Procs |-> "none"]
    /\ calls = 0
    /\ \E m \in ParamMaps : rt = [RtIdle EXCEPT !.stage = "input", !.input = m]

RtExpand ==
    /\ rt.stage = "input"
    /\ rt' = [rt EXCEPT !.stage = "typed",
                        !.typed = expandLogicAppWorkflowParameters([parameters |-> rt.input])]
    /\ UNCHANGED <<remote, locks, d, cfg, pc, op, res, ans, rd, trail, calls>>

RtFlatten ==
    /\ rt.stage = "typed"
    /\ ~ flattenPanics(rt.typed)
    /\ rt' = [rt EXCEPT !.stage = "flat",
                        !.output = flattenLogicAppWorkflowParameters(rt.typed)]
    /\ UNCHANGED <<remote, locks, d, cfg, pc, op, res, ans, rd, trail, calls>>

RtNext == RtExpand \/ RtFlatten

SpecParams == RtInit /\ [][RtNext]_vars

(***************************************************************************)
(* Properties                                                              *)
(***************************************************************************)
ReadPcs == {"c_read", "u_read", "r_get"}

InSection(p) == pc[p] \in {"u_get", "u_cou", "u_read", "d_del"}

Waiting(p) == pc[p] \in {"u_lock", "d_lock"}

Returned(p, handler) == op[p] = handler /\ pc[p] = "idle" /\ res[p] # "none"

AssignedId(p) == AzureID(cfg[p].resource_group_name, cfg[p].name)

\* What an undisturbed Create-then-Read leaves, apart from the location.
MatchesInput(p) ==
    /\ d[p].name = cfg[p].name
    /\ d[p].resource_group_name = cfg[p].resource_group_name
    /\ d[p].parameters = cfg[p].parameters
    /\ d[p].tags = cfg[p].tags
    /\ d[p].workflow_schema = SchemaDefault(cfg[p].workflow_schema, DefaultWorkflowSchema)
    /\ d[p].workflow_version = SchemaDefault(cfg[p].workflow_version, DefaultWorkflowVersion)

\* C1 as stated: after a Create that succeeded on an absent workflow and a
\* Read right after it, with no other change of the remote in between, the
\* local name, resource group, location, parameters and tags equal the
\* input and schema and version equal the input or the defaults.
C1_Original ==
    \A p \in Procs :
        trail[p] = "createdRead" => MatchesInput(p) /\ d[p].location = cfg[p].location

\* C1 amended: as above, but the local location is the normalised input
\* location.
C1_CreateThenRead ==
    \A p \in Procs :
        trail[p] = "createdRead" =>
            /\ MatchesInput(p)
            /\ d[p].location = azureRMNormalizeLocation(cfg[p].location)

C1_Witness ==
    \E p \in Procs :
        /\ trail[p] = "createdRead"
        /\ Returned(p, "Read")
        /\ cfg[p].location # azureRMNormalizeLocation(cfg[p].location)
        /\ cfg[p].parameters # EmptyMap
        /\ cfg[p].workflow_schema = Unset

\* C2: the create-or-update of an Update sends the definition document
\* that its get fetched from the remote, and the remote then holds that
\* document together with the configured location, parameters and tags;
\* no other step of an Update changes the remote.
C2_UpdatePreservesDefinition ==
    [][\A p \in Procs :
        /\ (op[p] = "Update" /\ pc[p] # "idle" /\ pc'[p] # pc[p]
                /\ ~ (pc[p] = "u_cou" /\ pc'[p] = "u_read")) =>
                remote' = remote
        /\ (pc[p] = "u_get" /\ pc'[p] = "u_cou") =>
                rd'[p] = remote[Name(p)].v.WorkflowProperties.v.Definition
        /\ (pc[p] = "u_cou" /\ pc'[p] = "u_read") =>
                LET w == remote'[Name(p)].v
                IN  /\ w.WorkflowProperties.v.Definition = rd[p]
                    /\ w.Location = Some(azureRMNormalizeLocation(cfg[p].location))
                    /\ w.WorkflowProperties.v.Parameters
                            = [k \in DOMAIN cfg[p].parameters |->
                                Some([Type |-> ParameterTypeString,
                                      Value |-> StringValue(cfg[p].parameters[k])])]
                    /\ DOMAIN w.Tags = DOMAIN cfg[p].tags
                    /\ \A k \in DOMAIN w.Tags : w.Tags[k] = Some(cfg[p].tags[k])
      ]_vars

C2_Witness ==
    \E p \in Procs :
        /\ pc[p] = "u_read"
        /\ remote[Name(p)].some
        /\ remote[Name(p)].v.WorkflowProperties.v.Definition = Some(DefFull)
        /\ remote[Name(p)].v.Tags # TagsRemote
        /\ DOMAIN remote[Name(p)].v.WorkflowProperties.v.Parameters = {"p1"}

\* C3: at most one Update or Delete call per workflow name is between
\* taking the lock and returning, and it is the holder of that name's lock;
\* all remote calls of Update and Delete are made in that section.
C3_Serialized ==
    \A p \in Procs :
        InSection(p) =>
            /\ locks[Name(p)] = p
            /\ \A q \in Procs \ {p} : InSection(q) => Name(q) # Name(p)

C3_Witness ==
    \E p \in Procs : \E q \in Procs \ {p} :
        /\ pc[p] \in {"u_cou", "u_read"}
        /\ pc[q] = "d_lock"
        /\ Name(q) = Name(p)

\* C4: a Delete whose remote delete answers not-found returns success and
\* leaves the workflow absent; one whose remote delete fails otherwise
\* returns an error.
C4_DeleteIdempotent ==
    [][\A p \in Procs :
        (pc[p] = "d_del" /\ pc'[p] = "idle") =>
            /\ ans'[p] = "notfound" =>
                    res'[p] = "ok" /\ remote' = remote /\ ~ remote'[Name(p)].some
            /\ ans'[p] = "fail" => res'[p] = "error"
      ]_vars

C4_Witness ==
    \E p \in Procs : \E q \in Procs \ {p} :
        /\ Returned(q, "Delete") /\ ans[q] = "ok" /\ res[q] = "ok"
        /\ Returned(p, "Delete") /\ ans[p] = "notfound" /\ res[p] = "ok"
        /\ d[p].id = d[q].id

\* C5: flattening the expansion of a string-to-string map gives the map
\* back.
C5_RoundTrip == rt.stage = "flat" => rt.output = rt.input

C5_Witness ==
    /\ rt.stage = "flat"
    /\ Cardinality(DOMAIN rt.input) >= 2
    /\ \E k \in DOMAIN rt.input : rt.input[k] = ""

\* C6: an Update whose fetch answers not-found clears the local identity,
\* returns success and leaves the workflow absent without a
\* create-or-update; one whose fetch fails otherwise returns an error,
\* leaves the remote alone and keeps the local identity.
C6_UpdateOnAbsent ==
    [][\A p \in Procs :
        (pc[p] = "u_get" /\ pc'[p] # "u_get") =>
            /\ ans'[p] = "notfound" =>
                    /\ pc'[p] = "idle" /\ res'[p] = "ok"
                    /\ d'[p].id = EmptyId
                    /\ remote' = remote /\ ~ remote'[Name(p)].some
            /\ ans'[p] = "fail" =>
                    /\ pc'[p] = "idle" /\ res'[p] = "error"
                    /\ d'[p].id = d[p].id
                    /\ remote' = remote
      ]_vars

C6_Witness ==
    \E p \in Procs :
        /\ Returned(p, "Update") /\ res[p] = "ok"
        /\ ans[p] = "notfound"
        /\ d[p].id = EmptyId
        /\ \A n \in Names : ~ remote[n].some

\* C7 as stated, its last part: whenever Create has returned success the
\* local identifier is the one the remote assigned.
C7_Original ==
    \A p \in Procs :
        (Returned(p, "Create") /\ res[p] = "ok") => d[p].id = AssignedId(p)

\* C7 amended: Create returns an error and stores no identifier when the
\* create-or-update fails or the fetched object has no identifier; when
\* Create returns success the local identifier is the one the remote
\* assigned, or it is empty because the delegated Read found the workflow
\* absent.
C7_CreateIdentity ==
    [][\A p \in Procs :
        /\ (pc[p] = "c_cou" /\ ans'[p] = "fail") =>
                pc'[p] = "idle" /\ res'[p] = "error" /\ d'[p].id = EmptyId
        /\ (pc[p] = "c_get" /\ ans'[p] = "noid") =>
                pc'[p] = "idle" /\ res'[p] = "error" /\ d'[p].id = EmptyId
        /\ (op[p] = "Create" /\ pc[p] # "idle" /\ pc'[p] = "idle" /\ res'[p] = "ok") =>
                \/ d'[p].id = AssignedId(p)
                \/ ans'[p] = "notfound" /\ d'[p].id = EmptyId
      ]_vars

C7_Witness ==
    \E p \in Procs :
        /\ Returned(p, "Create") /\ res[p] = "ok"
        /\ ans[p] = "notfound"
        /\ d[p].id = EmptyId

\* C8: a Read whose get answers not-found clears the local identity and
\* returns success; one whose get fails otherwise returns an error and
\* leaves the identity and every attribute as they were.
C8_ReadOnAbsent ==
    [][\A p \in Procs :
        (pc[p] \in ReadPcs /\ pc'[p] = "idle") =>
            /\ ans'[p] = "notfound" => res'[p] = "ok" /\ d'[p].id = EmptyId
            /\ ans'[p] = "fail" => res'[p] = "error" /\ d'[p] = d[p]
      ]_vars

C8_Witness ==
    \E p \in Procs : \E q \in Procs \ {p} :
        /\ Returned(p, "Read") /\ res[p] = "error" /\ ans[p] = "fail"
        /\ d[p].id # EmptyId
        /\ Returned(q, "Read") /\ res[q] = "ok" /\ ans[q] = "notfound"
        /\ d[q].id = EmptyId

\* C9 as stated: a Read of a present workflow whose definition is a map
\* in which "$schema" or "contentVersion" is missing or not a string does
\* not fail, keeps workflow_schema and workflow_version, and sets name,
\* resource group, location, parameters, access endpoint and tags.
C9_Original ==
    [][\A p \in Procs :
        (/\ pc[p] \in ReadPcs /\ pc'[p] = "idle" /\ ans'[p] = "ok"
         /\ ParsesOk(d[p].id)
         /\ remote[Name(p)].some
         /\ remote[Name(p)].v.WorkflowProperties.some
         /\ ~ flattenPanics(remote[Name(p)].v.WorkflowProperties.v.Parameters)
         /\ DefinitionPanics(remote[Name(p)].v.WorkflowProperties.v.Definition)) =>
            LET w == remote[Name(p)].v
            IN  /\ res'[p] = "ok"
                /\ d'[p].workflow_schema = d[p].workflow_schema
                /\ d'[p].workflow_version = d[p].workflow_version
                /\ d'[p].name = w.Name
                /\ d'[p].access_endpoint = w.WorkflowProperties.v.AccessEndpoint
                /\ DOMAIN d'[p].tags = DOMAIN w.Tags
      ]_vars

\* C10: a caller that is not inside Update or Delete holds no lock, on
\* whatever path it left, and a caller waiting for the lock of a workflow
\* name gets it.
C10_LockReleased ==
    /\ [](\A p \in Procs : ~ InSection(p) => \A n \in Names : locks[n] # p)
    /\ \A p \in Procs : Waiting(p) ~> InSection(p)

C10_Witness ==
    \E p \in Procs : \E q \in Procs \ {p} :
        /\ Returned(p, "Update") /\ res[p] = "panic"
        /\ InSection(q)
        /\ d[q].id = d[p].id

====
